---- MODULE Spec2Model ----
(***************************************************************************)
(* A model of task-3.py: the script that generates a year of synthetic     *)
(* sales, builds a DataFrame of them and starts to lay a matplotlib        *)
(* dashboard out.  The script takes no input and seeds numpy's generator   *)
(* with 42, so it has one run.  That run ends at line 83 with a TypeError  *)
(* (the first label panel); lines 92-177, the three summary tables and     *)
(* their panels, are never executed and have no action here.  The tables   *)
(* are variables that no step of the run assigns.                          *)
(*                                                                         *)
(* Random stream.  np.random is the Mersenne Twister MT19937.  Its output  *)
(* after seed(42) is the constant MT19937Words, 32-bit words in the order  *)
(* genrand yields them, each word as <<high 16 bits, low 16 bits>>.  The   *)
(* state of the stream is the number of words taken.  randint takes one    *)
(* word and masks it; choice and uniform take one double each, two words,  *)
(* of which the double keeps 27 and 26 bits: all 53 are kept here.         *)
(*                                                                         *)
(* Numbers.  SalesAmount is a double in the script.  Here it is the real   *)
(* number the script's expression denotes, (low + (high - low) * u) *      *)
(* (1 + month/12 * {1, 0.8, 0.7}), held exactly as a fixed-point number of *)
(* 53 binary places in units of 1 / AmountScale.  The roundings of double  *)
(* arithmetic (a relative 2^-51 or so) are outside the model.              *)
(*                                                                         *)
(* Calendar.  date_range('2024-01-01', '2024-12-31') is modelled as the    *)
(* first MaxDay days of each of the twelve months, a date being the pair   *)
(* <<month, day>>.  MT19937Words covers calendars of up to 48 dates.       *)
(***************************************************************************)
EXTENDS Integers, Sequences, FiniteSets, TLC

VARIABLES
    pc,             \* position in the script
    rng,            \* state of the global random stream
    seedCalls,      \* calls of np.random.seed so far
    drawCount,      \* calls of randint, choice and uniform so far
    dayIdx,         \* index into dates of the outer loop
    remaining,      \* iterations the inner loop still has to run
    data,           \* the list `data`
    df,             \* the DataFrame, with the derived Month and YearMonth
    figure,         \* the figure and its grid, once created
    panels,         \* names of the axes drawn so far, in order
    slicers,        \* the label panels created by the slicer loop
    error,          \* the exception that ended the run, or "none"
    tables,         \* names of the summary tables computed so far
    region_sales,   \* the Region-sum table (line 93)
    category_sales, \* the Category-sum table (line 120)
    monthly_sales,  \* the Month-sum table (line 152)
    fmtIn,          \* argument of a direct call of format_sales
    fmtOut,         \* its result
    run,            \* 1 for the first execution of the script, 2 for a second
    prevData        \* the list `data` of the previous execution

vars == <<pc, rng, seedCalls, drawCount, dayIdx, remaining, data, df,
          figure, panels, slicers, error, tables, region_sales,
          category_sales, monthly_sales, fmtIn, fmtOut, run, prevData>>

genVars == <<rng, seedCalls, drawCount, dayIdx, remaining, data>>
renderVars == <<figure, panels, slicers, error>>
aggVars == <<tables, region_sales, category_sales, monthly_sales>>
fmtVars == <<fmtIn, fmtOut>>
runVars == <<run, prevData>>

---------------------------------------------------------------------------
(* Bounds of the model *)

MaxDay == 3
WordStride == 97
FmtUnits == 1100
FmtThousands == 1050
FmtMillions == 60

---------------------------------------------------------------------------
(* Constants of the script *)

SEED == 42
AmountScale == 120
regions == <<"West", "East", "Central", "South">>
region_p == <<30, 25, 25, 20>>
categories == <<"Technology", "Furniture", "Office Supplies">>
category_p == <<40, 35, 25>>
DaysInMonth == <<31, 29, 31, 30, 31, 30, 31, 31, 30, 31, 30, 31>>

(* pd.date_range(start, end, freq='D'): the days in calendar order *)
RECURSIVE DateRange(_, _)
DateRange(m, d) ==
    IF m > Len(DaysInMonth) THEN <<>>
    ELSE IF d > DaysInMonth[m] \/ d > MaxDay THEN DateRange(m + 1, 1)
    ELSE <<<<m, d>>>> \o DateRange(m, d + 1)

dates == DateRange(1, 1)

---------------------------------------------------------------------------
(* The random stream *)

(* the 32-bit outputs of MT19937 after init_genrand(42), in order *)
MT19937Words ==
    <<
       <<24545, 56422>>, <<52202, 15795>>, <<62306, 860>>, <<12021, 38158>>, <<47971, 62570>>, <<51097, 54343>>,
       <<39233, 44732>>, <<39115, 11284>>, <<10224, 54886>>, <<29218, 6265>>, <<10223, 16850>>, <<6551, 62678>>,
       <<3806, 37194>>, <<30097, 21962>>, <<56765, 47191>>, <<21869, 60788>>, <<39394, 44131>>, <<9362, 60263>>,
       <<46404, 16023>>, <<42656, 41090>>, <<1349, 1685>>, <<3696, 64820>>, <<63564, 769>>, <<47316, 59735>>,
       <<54554, 62955>>, <<61508, 64925>>, <<13915, 56101>>, <<51, 2433>>, <<11916, 5311>>, <<65025, 37819>>,
       <<12019, 39188>>, <<40467, 17568>>, <<19938, 53707>>, <<40085, 19769>>, <<34390, 28693>>, <<463, 6396>>,
       <<28307, 62187>>, <<1511, 27480>>, <<19085, 65072>>, <<34391, 41434>>, <<40098, 25658>>, <<26205, 18942>>,
       <<9141, 57001>>, <<3058, 18431>>, <<19145, 64987>>, <<63816, 2747>>, <<24009, 58319>>, <<15254, 59150>>,
       <<29889, 189>>, <<5937, 64445>>, <<51457, 19118>>, <<40526, 35773>>, <<13085, 53810>>, <<25065, 1899>>,
       <<33700, 56886>>, <<64437, 1267>>, <<38824, 31551>>, <<30589, 50680>>, <<3044, 11394>>, <<56357, 3556>>,
       <<39816, 3890>>, <<44584, 41606>>, <<11175, 30740>>, <<29523, 60232>>, <<4263, 14502>>, <<869, 21777>>,
       <<62186, 10627>>, <<61748, 8792>>, <<63283, 43323>>, <<36915, 43021>>, <<52979, 8433>>, <<25258, 43001>>,
       <<19963, 11016>>, <<1046, 23897>>, <<6401, 2612>>, <<15131, 56193>>, <<44841, 58707>>, <<15795, 55387>>,
       <<28845, 54638>>, <<44778, 23483>>, <<7997, 58822>>, <<39976, 48555>>, <<32451, 59900>>, <<54604, 17159>>,
       <<2253, 44974>>, <<11361, 40994>>, <<59593, 14541>>, <<25628, 35920>>, <<16959, 26531>>, <<11943, 1585>>,
       <<43419, 3943>>, <<49503, 23939>>, <<20428, 19457>>, <<27863, 1021>>, <<34083, 11653>>, <<13627, 43573>>,
       <<35829, 13417>>, <<37204, 52995>>, <<12114, 40757>>, <<2052, 9692>>, <<63542, 45758>>, <<55199, 63889>>,
       <<50799, 6873>>, <<29475, 5675>>, <<61571, 161>>, <<25896, 37065>>, <<58643, 26557>>, <<60729, 33763>>,
       <<39183, 63757>>, <<47662, 32606>>, <<60415, 62255>>, <<21400, 11534>>, <<5799, 29127>>, <<37384, 40397>>,
       <<12843, 61142>>, <<34133, 25851>>, <<2964, 1016>>, <<62991, 24253>>, <<21320, 55591>>, <<55347, 24276>>,
       <<25472, 23247>>, <<48976, 24300>>, <<17783, 8529>>, <<35369, 17262>>, <<54312, 9268>>, <<38453, 21271>>,
       <<23380, 12185>>, <<63258, 63704>>, <<18411, 21243>>, <<39782, 39099>>, <<35566, 8571>>, <<18087, 57836>>,
       <<9235, 39976>>, <<19416, 38044>>, <<52572, 51214>>, <<10830, 61228>>, <<4885, 49216>>, <<1024, 48984>>,
       <<64676, 40774>>, <<27748, 2568>>, <<50609, 54615>>, <<25878, 62592>>, <<13023, 2027>>, <<19234, 2695>>,
       <<361, 58839>>, <<922, 48190>>, <<53442, 5258>>, <<13031, 22002>>, <<46324, 39504>>, <<46618, 33159>>,
       <<47776, 13986>>, <<51784, 61858>>, <<50545, 63776>>, <<39712, 12666>>, <<4852, 38660>>, <<60706, 3561>>,
       <<23492, 26854>>, <<42668, 64505>>, <<7593, 38952>>, <<59962, 52251>>, <<56564, 22662>>, <<55708, 8392>>,
       <<40848, 30535>>, <<29455, 13067>>, <<21685, 48033>>, <<6252, 52256>>, <<4165, 23599>>, <<24301, 61942>>,
       <<20380, 35222>>, <<43833, 11837>>, <<21311, 14039>>, <<43641, 58148>>, <<47815, 30818>>, <<38751, 19115>>,
       <<41782, 63335>>, <<18004, 10965>>, <<58144, 24538>>, <<36781, 42530>>, <<30947, 5056>>, <<25095, 32482>>,
       <<7837, 47716>>, <<63682, 8110>>, <<46743, 13773>>, <<55634, 27266>>, <<49858, 52992>>, <<47299, 17412>>,
       <<36783, 56537>>, <<15465, 33270>>, <<50526, 6910>>, <<16781, 45453>>, <<32361, 25446>>, <<2649, 56090>>,
       <<34257, 53640>>, <<46574, 206>>, <<28019, 21518>>, <<7267, 22361>>, <<1665, 56873>>, <<28792, 23419>>,
       <<7070, 50636>>, <<13219, 57010>>, <<2059, 48702>>, <<58704, 50015>>, <<41707, 51942>>, <<31153, 56560>>,
       <<20601, 41523>>, <<36914, 54268>>, <<33329, 45151>>, <<45581, 22403>>, <<59478, 18141>>, <<9131, 14820>>,
       <<16337, 40342>>, <<39611, 6374>>, <<26894, 56044>>, <<35379, 1678>>, <<49515, 52394>>, <<13307, 53788>>,
       <<14994, 33827>>, <<61790, 55820>>, <<5044, 62623>>, <<39247, 16198>>, <<18989, 9914>>, <<45533, 27890>>,
       <<10565, 52309>>, <<57702, 22299>>, <<60928, 43585>>, <<40917, 43689>>, <<52960, 64044>>, <<19374, 42557>>,
       <<41510, 49080>>, <<6913, 44020>>, <<57112, 2693>>, <<29919, 29467>>, <<52669, 29723>>, <<14315, 46699>>,
       <<12227, 3627>>, <<27296, 25939>>, <<58494, 48925>>, <<57886, 42941>>, <<35346, 21834>>, <<21256, 18047>>,
       <<52916, 26105>>, <<8001, 10230>>, <<58726, 15707>>, <<23350, 21976>>, <<20840, 44262>>, <<59429, 59581>>,
       <<7212, 23776>>, <<17834, 30080>>, <<14937, 62840>>, <<42447, 1306>>, <<27990, 61373>>, <<34, 6776>>,
       <<53609, 27251>>, <<23105, 62412>>, <<56408, 55016>>, <<19974, 9474>>, <<455, 40294>>, <<10790, 58053>>,
       <<33472, 21959>>, <<35002, 5530>>, <<27355, 29320>>, <<31773, 53565>>, <<14556, 3748>>, <<45379, 31968>>,
       <<7855, 32562>>, <<17656, 13545>>, <<22125, 62123>>, <<15999, 663>>, <<61794, 34766>>, <<11029, 7994>>,
       <<21181, 28021>>, <<14336, 61087>>, <<33999, 30303>>, <<36575, 50647>>, <<46073, 3304>>, <<26465, 52915>>,
       <<23830, 54384>>, <<4252, 51005>>, <<63686, 46576>>, <<16640, 39353>>, <<63074, 62003>>, <<16179, 17675>>,
       <<16500, 52733>>, <<45632, 65318>>, <<32587, 44417>>, <<46679, 23938>>, <<19718, 23664>>, <<9705, 1636>>,
       <<18667, 20080>>, <<65387, 60343>>, <<2417, 27728>>, <<17483, 49850>>, <<39948, 26736>>, <<64003, 28673>>,
       <<32943, 37505>>, <<26937, 47323>>, <<3373, 46645>>, <<2166, 854>>, <<18261, 24548>>, <<22614, 38623>>,
       <<59524, 7392>>, <<41572, 55680>>, <<15699, 60818>>, <<44610, 46717>>, <<9495, 54401>>, <<34795, 21556>>,
       <<32076, 50859>>, <<29345, 60121>>, <<64595, 38559>>, <<36234, 26309>>, <<15863, 21919>>, <<38842, 63734>>,
       <<44049, 4931>>, <<5298, 52662>>, <<49913, 32970>>, <<24225, 44215>>, <<15573, 53370>>, <<15870, 12688>>,
       <<47724, 25342>>, <<52634, 37157>>, <<24103, 2327>>, <<30821, 40772>>, <<41438, 52083>>, <<64449, 40545>>,
       <<41519, 197>>, <<26137, 23509>>, <<35112, 34698>>, <<53505, 44542>>, <<5917, 15087>>, <<52320, 22671>>,
       <<54742, 25184>>, <<9877, 27848>>, <<21022, 42107>>, <<33305, 20666>>, <<12223, 44357>>, <<45600, 51663>>,
       <<2672, 15708>>, <<56253, 26370>>, <<38724, 49811>>, <<21362, 2811>>, <<44404, 56250>>, <<14433, 47011>>,
       <<1087, 6546>>, <<46605, 58713>>, <<33560, 34754>>, <<53051, 30206>>, <<14843, 41106>>, <<22850, 11411>>,
       <<42282, 2911>>, <<6303, 1734>>, <<11427, 18227>>, <<61638, 8680>>, <<45281, 19360>>, <<26055, 18343>>,
       <<25345, 5759>>, <<33931, 23078>>, <<61389, 35153>>, <<54900, 11111>>, <<9012, 37504>>, <<44282, 1802>>,
       <<22352, 8155>>, <<48183, 8120>>, <<7436, 39384>>, <<13701, 47025>>, <<60600, 47254>>, <<35484, 21918>>,
       <<57497, 20445>>, <<45598, 60713>>, <<16904, 30306>>, <<14978, 16646>>, <<43252, 46843>>, <<11465, 55439>>,
       <<53557, 31065>>, <<64367, 25199>>, <<36385, 41976>>, <<33858, 16371>>, <<34711, 11835>>, <<17093, 45936>>,
       <<15850, 2049>>, <<65290, 31616>>, <<6101, 38191>>, <<63269, 47357>>, <<58799, 61067>>, <<36588, 20932>>,
       <<59009, 52260>>, <<57844, 29855>>, <<41490, 61434>>, <<12367, 7158>>, <<22218, 43016>>, <<18276, 7400>>,
       <<22885, 52322>>, <<45898, 42642>>, <<47576, 15151>>, <<55486, 51407>>, <<58793, 1154>>, <<56120, 4499>>,
       <<58136, 6295>>, <<26509, 55349>>, <<51109, 60535>>, <<58180, 59040>>, <<42076, 12183>>, <<55766, 29299>>,
       <<5514, 12874>>, <<61317, 50800>>, <<10592, 32711>>, <<51468, 5539>>, <<58887, 42405>>, <<43842, 53351>>,
       <<39742, 61267>>, <<38055, 57597>>, <<602, 48354>>, <<24397, 60527>>, <<6650, 2557>>, <<61612, 38360>>,
       <<43483, 16482>>, <<63810, 2200>>, <<331, 46940>>, <<18607, 2961>>, <<10538, 46975>>, <<20012, 21357>>,
       <<35961, 53585>>, <<31825, 11969>>, <<45344, 2869>>, <<29387, 60578>>, <<42726, 61135>>, <<65172, 50108>>,
       <<14697, 46760>>, <<11529, 28643>>, <<46673, 24736>>, <<1184, 38467>>, <<15548, 23328>>, <<32367, 53645>>,
       <<21325, 25876>>, <<11719, 21295>>, <<48922, 3987>>, <<24016, 58871>>, <<42574, 22399>>, <<48769, 62855>>,
       <<55654, 46214>>, <<47247, 33986>>, <<43097, 20880>>, <<20189, 4735>>, <<37244, 44064>>, <<35555, 60079>>,
       <<6139, 4555>>, <<33345, 41914>>, <<24098, 40818>>, <<41702, 45525>>, <<17380, 19830>>, <<16414, 17429>>,
       <<15990, 6893>>, <<38657, 50845>>, <<63767, 14373>>, <<64152, 47333>>, <<25762, 3436>>, <<31899, 8754>>,
       <<58461, 10677>>, <<59382, 5895>>, <<41362, 19738>>, <<28468, 30746>>, <<52088, 49377>>, <<22942, 48404>>,
       <<32940, 54045>>, <<42277, 32352>>, <<37807, 63771>>, <<43838, 39790>>, <<32277, 41919>>, <<56634, 5600>>,
       <<12795, 29124>>, <<15085, 27643>>, <<47346, 40764>>, <<32715, 9007>>, <<18400, 45714>>, <<37486, 56835>>,
       <<1593, 37410>>, <<50367, 62655>>, <<42301, 44080>>, <<2857, 40447>>, <<11607, 8208>>, <<65178, 56491>>,
       <<61633, 58587>>, <<30798, 18589>>, <<62516, 43484>>, <<18321, 17453>>, <<59956, 36212>>, <<57900, 43525>>,
       <<24258, 47202>>, <<49002, 32635>>, <<1012, 63208>>, <<62460, 33828>>, <<60838, 18711>>, <<21676, 3420>>,
       <<28061, 31216>>, <<36226, 301>>, <<63350, 45236>>, <<37505, 49758>>, <<63151, 52322>>, <<64247, 699>>,
       <<55902, 54240>>, <<4937, 58483>>, <<19297, 190>>, <<20034, 10492>>, <<25237, 50132>>, <<12511, 35743>>,
       <<55780, 6102>>, <<17594, 50336>>, <<20769, 52479>>, <<31803, 19778>>, <<11107, 57471>>, <<24424, 26641>>,
       <<36490, 34584>>, <<25866, 32745>>, <<61351, 55006>>, <<55326, 23093>>, <<45615, 569>>, <<60949, 38210>>,
       <<37359, 34663>>, <<4614, 51885>>, <<6368, 36631>>, <<13691, 45681>>, <<40305, 7455>>, <<43984, 4014>>,
       <<64884, 11093>>, <<23504, 18070>>, <<9180, 35777>>, <<16656, 56958>>, <<33969, 16538>>, <<19352, 10729>>,
       <<57499, 34177>>, <<21138, 45017>>, <<48547, 784>>, <<55618, 27751>>, <<45679, 40864>>, <<8953, 40328>>,
       <<46037, 65322>>, <<46459, 12533>>, <<23559, 40111>>, <<36229, 39974>>, <<19240, 54748>>, <<19432, 5801>>,
       <<53042, 19190>>, <<27510, 49689>>, <<53091, 38754>>, <<16790, 50993>>, <<56824, 29592>>, <<40076, 10647>>,
       <<59850, 8716>>, <<5347, 23355>>, <<33511, 22009>>, <<339, 52102>>, <<32867, 24376>>, <<41149, 45091>>,
       <<52317, 4780>>, <<12731, 61459>>, <<42596, 2368>>, <<4649, 12039>>, <<46004, 6655>>, <<26003, 40941>>,
       <<52153, 4495>>, <<3327, 10893>>, <<58327, 25547>>, <<58105, 22386>>, <<22150, 55766>>, <<1809, 58510>>,
       <<24614, 13403>>, <<37936, 32097>>, <<6159, 13121>>, <<28735, 55071>>, <<37898, 10966>>, <<44041, 59326>>,
       <<2355, 33621>>, <<21505, 53298>>, <<30513, 28312>>, <<10160, 52921>>, <<35562, 49726>>, <<64345, 60605>>,
       <<18778, 50300>>, <<54980, 22677>>, <<38720, 55609>>, <<56387, 31289>>, <<1998, 56661>>, <<16400, 31024>>,
       <<2447, 42675>>, <<2545, 4777>>, <<53909, 62277>>, <<19874, 53006>>, <<23605, 29749>>, <<35198, 15338>>,
       <<8327, 2491>>, <<21407, 27236>>, <<34225, 48096>>, <<54255, 14599>>, <<50462, 19508>>, <<17795, 54843>>,
       <<14144, 3051>>, <<63258, 48747>>, <<40821, 49156>>, <<29967, 21606>>, <<5593, 21699>>, <<55182, 54021>>,
       <<3387, 876>>, <<12738, 58335>>, <<34822, 56179>>, <<26958, 32093>>, <<35431, 4142>>, <<45843, 15202>>,
       <<41774, 39734>>, <<9067, 7079>>, <<47585, 7987>>, <<8699, 39567>>, <<63953, 28940>>, <<63539, 37233>>,
       <<33836, 17019>>, <<46831, 46185>>, <<21165, 18077>>, <<2691, 26258>>, <<52113, 21136>>, <<26137, 8311>>,
       <<17749, 17214>>, <<28411, 14098>>, <<28768, 28251>>, <<48761, 37945>>, <<5141, 47030>>, <<16440, 25945>>,
       <<1661, 25316>>, <<12080, 32217>>, <<63088, 8308>>, <<5300, 5949>>, <<54786, 51990>>, <<28070, 1150>>,
       <<45611, 23944>>, <<45121, 34699>>, <<26801, 9204>>, <<3813, 50816>>, <<11357, 1081>>, <<59979, 29305>>,
       <<10252, 16896>>, <<28989, 65262>>, <<16399, 60193>>, <<15714, 46175>>, <<35994, 7805>>, <<6152, 5237>>,
       <<46831, 49711>>, <<11984, 20056>>, <<43266, 45543>>, <<61250, 56556>>, <<18345, 49012>>, <<41829, 45952>>,
       <<62578, 3343>>, <<33862, 13500>>, <<48358, 53222>>, <<43064, 29375>>, <<36330, 9662>>, <<28552, 16964>>,
       <<40089, 47893>>, <<47843, 56156>>, <<27498, 59638>>, <<3127, 8130>>, <<16235, 19531>>, <<37095, 53401>>,
       <<23329, 1679>>, <<10397, 3506>>, <<49666, 13284>>, <<7875, 7253>>, <<943, 19128>>, <<22405, 27932>>,
       <<7606, 61389>>, <<6016, 9435>>, <<3014, 54340>>, <<6170, 44078>>, <<2669, 13296>>, <<20408, 51293>>,
       <<56063, 30445>>, <<64193, 13245>>, <<46114, 60403>>, <<11490, 29124>>, <<31075, 29899>>, <<1124, 43919>>,
       <<6411, 43225>>, <<50027, 55769>>, <<32218, 35247>>, <<52881, 55636>>, <<31029, 29222>>, <<22695, 26211>>,
       <<11350, 62752>>, <<30452, 56573>>, <<28432, 59101>>, <<42583, 37220>>, <<26116, 26646>>, <<3149, 38649>>,
       <<40360, 23049>>, <<62203, 14069>>, <<41621, 32580>>, <<58109, 31843>>, <<2969, 2849>>, <<17097, 60595>>,
       <<24550, 40158>>, <<1002, 65417>>, <<41016, 23289>>, <<61173, 44690>>, <<32973, 35257>>, <<32836, 9823>>,
       <<56130, 60160>>, <<35348, 41975>>, <<43168, 9540>>, <<44824, 16364>>, <<10678, 4611>>, <<40360, 27663>>,
       <<4624, 51991>>, <<61858, 57679>>, <<42101, 38646>>, <<61882, 30977>>, <<1737, 29168>>, <<56832, 49115>>,
       <<38389, 25471>>, <<41707, 22687>>, <<61618, 60890>>, <<52491, 851>>, <<37714, 18071>>, <<44378, 59275>>,
       <<25439, 6833>>, <<37576, 11938>>, <<42158, 35195>>, <<8421, 26144>>, <<30032, 4000>>, <<53163, 5052>>,
       <<35757, 35506>>, <<53781, 28074>>, <<61699, 54884>>, <<41021, 38155>>, <<25303, 40770>>, <<53767, 32320>>,
       <<62992, 38304>>, <<42695, 46247>>, <<59333, 3913>>, <<13545, 17450>>, <<12831, 24107>>, <<17954, 20764>>,
       <<4545, 43404>>, <<14063, 20491>>, <<6604, 38494>>, <<24724, 3373>>, <<1194, 12161>>, <<2553, 31996>>,
       <<6189, 27122>>, <<40517, 58097>>, <<44761, 34850>>, <<22056, 27350>>, <<4665, 27472>>, <<42973, 28761>>,
       <<20904, 25351>>, <<25257, 23132>>, <<55369, 49049>>, <<44670, 15305>>, <<1525, 9817>>, <<22323, 11261>>,
       <<53377, 417>>, <<17084, 57458>>, <<18471, 41576>>, <<32508, 20358>>, <<7744, 3267>>, <<45409, 17209>>,
       <<45661, 24052>>, <<22828, 38513>>, <<41218, 26092>>, <<61384, 11338>>, <<57506, 412>>, <<2568, 7543>>,
       <<48173, 40355>>, <<27390, 33496>>, <<52656, 60692>>, <<63411, 23548>>, <<18483, 27384>>, <<35911, 58019>>,
       <<11628, 44425>>, <<27752, 38756>>, <<49192, 18888>>, <<37258, 35735>>, <<52876, 47295>>, <<37743, 51938>>,
       <<64913, 48816>>, <<47949, 17506>>, <<27041, 20463>>, <<8368, 17955>>, <<24380, 37841>>, <<16385, 5104>>,
       <<50882, 65510>>, <<38046, 34911>>, <<22334, 59031>>, <<56827, 23190>>, <<60998, 7357>>, <<36822, 32479>>,
       <<56256, 61476>>, <<15636, 44811>>, <<28114, 36208>>, <<44554, 20150>>, <<49209, 5644>>, <<48490, 43286>>,
       <<49449, 47320>>, <<15613, 2914>>, <<6758, 21352>>, <<24754, 55069>>, <<59149, 46352>>, <<35017, 44912>>,
       <<33112, 14397>>, <<32542, 41555>>, <<54162, 46959>>, <<25534, 728>>, <<20974, 50517>>, <<19505, 53644>>,
       <<58689, 698>>, <<6552, 39954>>, <<25506, 47280>>, <<3505, 13923>>, <<710, 16779>>, <<62818, 63932>>,
       <<59335, 7400>>, <<55518, 24466>>, <<5982, 36939>>, <<23259, 4360>>, <<20926, 35270>>, <<62704, 59163>>,
       <<62263, 17101>>, <<44352, 51934>>, <<62298, 64895>>, <<31622, 32307>>, <<37580, 54098>>, <<32310, 60921>>,
       <<41408, 5486>>, <<5458, 8335>>, <<29389, 21364>>, <<6009, 60484>>, <<19215, 56418>>, <<39481, 37259>>,
       <<21539, 23576>>, <<36287, 31667>>, <<44074, 11130>>, <<13941, 21972>>, <<49307, 40419>>, <<62009, 52788>>,
       <<51876, 60566>>, <<51203, 1167>>, <<51748, 27192>>, <<7436, 1062>>, <<5977, 18540>>, <<61009, 24244>>,
       <<32402, 21545>>, <<63848, 21689>>, <<3772, 11174>>, <<65269, 22925>>, <<36013, 60638>>, <<3661, 37497>>,
       <<28936, 9348>>, <<48302, 23714>>, <<58176, 38102>>, <<35777, 8924>>, <<22997, 37098>>, <<46257, 24394>>,
       <<7672, 6801>>, <<63481, 37614>>, <<9371, 6731>>, <<45090, 48136>>, <<49906, 23625>>, <<54851, 17337>>,
       <<40515, 35307>>, <<56811, 7056>>, <<6627, 11516>>, <<54950, 44261>>, <<5512, 1542>>, <<27924, 21677>>,
       <<45938, 46732>>, <<14586, 50343>>, <<4768, 39081>>, <<25994, 62856>>, <<53861, 27569>>, <<58451, 23322>>,
       <<46284, 19065>>, <<9607, 58561>>, <<5331, 17924>>, <<33641, 22556>>, <<5559, 60580>>, <<15284, 54693>>,
       <<64660, 26962>>, <<38096, 28295>>, <<24528, 13807>>, <<56566, 42348>>, <<24290, 26432>>, <<57695, 17749>>,
       <<53267, 41459>>, <<15511, 26256>>, <<62078, 57854>>, <<59486, 40262>>, <<64618, 37080>>, <<38790, 1324>>,
       <<49373, 25731>>, <<22951, 59171>>, <<24658, 35909>>, <<46411, 23803>>, <<5472, 19870>>, <<31566, 34578>>,
       <<50931, 6588>>, <<24771, 52075>>, <<36595, 38069>>, <<46208, 26790>>, <<27801, 53338>>, <<16300, 25289>>,
       <<59398, 55129>>, <<21643, 28178>>, <<7287, 28710>>, <<28472, 15485>>, <<32284, 44482>>, <<16625, 20652>>,
       <<744, 4748>>, <<26555, 21233>>, <<30714, 9435>>, <<37452, 3709>>, <<3689, 58425>>, <<48560, 30355>>,
       <<7786, 55771>>, <<50278, 57799>>, <<7702, 13116>>, <<53922, 25470>>, <<42546, 42344>>, <<48772, 42918>>,
       <<48892, 52224>>, <<44632, 39298>>, <<38231, 42956>>, <<15565, 14683>>, <<63056, 61629>>, <<26229, 504>>,
       <<24567, 33982>>, <<31307, 34299>>, <<18724, 28016>>, <<5432, 23960>>, <<56924, 33591>>, <<34627, 17312>>,
       <<14653, 37797>>, <<28595, 46196>>, <<63125, 49285>>, <<52567, 2105>>, <<796, 36395>>, <<64087, 45740>>,
       <<63561, 64159>>, <<36438, 22700>>, <<2828, 34620>>, <<21147, 37678>>, <<58401, 62612>>, <<2844, 20559>>,
       <<34583, 27509>>, <<60597, 27860>>, <<65074, 61642>>, <<60235, 11003>>, <<4836, 21732>>, <<16579, 63139>>,
       <<36297, 25826>>, <<45574, 30354>>, <<63524, 13843>>, <<4943, 44472>>, <<34281, 48529>>, <<10893, 6190>>,
       <<41248, 17640>>, <<14208, 52528>>, <<45596, 38413>>, <<19299, 62606>>, <<29788, 52638>>, <<65262, 52736>>,
       <<41127, 42356>>, <<45673, 44597>>, <<38293, 40821>>, <<25179, 3330>>, <<59058, 19087>>, <<48306, 41430>>,
       <<2978, 24504>>, <<59982, 7114>>, <<18413, 13323>>, <<62829, 34121>>, <<62286, 10975>>, <<3792, 11023>>,
       <<58344, 21447>>, <<25855, 24933>>, <<29861, 60363>>, <<6996, 23959>>, <<40641, 667>>, <<21997, 53620>>,
       <<18178, 29703>>, <<11120, 9337>>, <<12328, 46427>>, <<42391, 55971>>, <<30388, 61529>>, <<25445, 36487>>,
       <<23157, 19129>>, <<15033, 40251>>, <<38250, 31921>>, <<17428, 33307>>, <<5094, 27355>>, <<23615, 37732>>,
       <<63857, 61480>>, <<17036, 4835>>, <<64632, 20159>>, <<29703, 38810>>, <<45754, 47605>>, <<2117, 56254>>,
       <<35133, 40080>>, <<18334, 38088>>, <<20285, 13216>>, <<26948, 55284>>, <<53332, 57043>>, <<39503, 59852>>,
       <<44874, 35547>>, <<17757, 31471>>, <<10657, 17308>>, <<8728, 27532>>, <<59698, 34349>>, <<4993, 56866>>,
       <<53905, 52476>>, <<61638, 45445>>, <<62246, 5713>>, <<27304, 56178>>, <<47560, 49407>>, <<38087, 4804>>,
       <<40200, 50990>>, <<60239, 10136>>, <<27409, 63937>>, <<5423, 9>>, <<61127, 19255>>, <<57452, 58141>>,
       <<56758, 23793>>, <<36148, 56570>>, <<2963, 29548>>, <<10802, 37892>>, <<1727, 64630>>, <<26952, 1015>>,
       <<24671, 59168>>, <<50960, 61813>>, <<53120, 27712>>, <<31481, 34961>>, <<64702, 8415>>, <<64571, 46318>>,
       <<9857, 47280>>, <<24689, 63242>>, <<38936, 62292>>, <<49124, 23833>>, <<24962, 4158>>, <<25754, 62680>>,
       <<63564, 20309>>, <<54340, 6970>>, <<55189, 6938>>, <<37295, 21168>>, <<54940, 46540>>, <<4162, 20384>>,
       <<30716, 18017>>, <<2413, 10344>>, <<27185, 40034>>, <<8772, 8702>>, <<17918, 384>>, <<896, 404>>,
       <<3694, 40943>>, <<4938, 47926>>, <<56670, 29189>>, <<45332, 12763>>, <<53274, 18384>>, <<35018, 60100>>,
       <<65517, 32606>>, <<49146, 9860>>, <<65315, 38757>>, <<59845, 15106>>, <<36400, 50612>>, <<38348, 23574>>,
       <<50396, 23524>>, <<47587, 3636>>, <<61916, 10916>>, <<49616, 4809>>, <<55682, 32201>>, <<24762, 53330>>,
       <<16210, 13456>>, <<15799, 48212>>, <<29526, 56397>>, <<13437, 55752>>, <<8464, 38765>>, <<16478, 34816>>,
       <<62524, 45106>>, <<18004, 53932>>, <<39726, 17100>>, <<13580, 57091>>, <<14984, 21949>>, <<57555, 4544>>,
       <<44020, 37744>>, <<49610, 45543>>, <<40509, 42783>>, <<3073, 26657>>, <<23472, 36187>>, <<17607, 47198>>,
       <<7442, 7239>>, <<1453, 58918>>, <<44012, 14489>>, <<32647, 49401>>, <<34098, 58017>>, <<31208, 61877>>,
       <<50614, 43125>>, <<54484, 49922>>, <<34089, 28538>>, <<20170, 32049>>, <<55848, 37131>>, <<53502, 42944>>,
       <<36169, 50229>>, <<63437, 8427>>, <<36761, 41348>>, <<5793, 60381>>, <<57452, 24285>>, <<51892, 37626>>,
       <<26442, 42808>>, <<38663, 22928>>, <<8782, 53871>>, <<31460, 19198>>, <<1886, 19758>>, <<27560, 15254>>,
       <<49488, 44238>>, <<51424, 1252>>, <<40652, 39764>>, <<41901, 12173>>, <<46142, 37441>>, <<52759, 26698>>,
       <<13956, 53682>>, <<59188, 59494>>, <<8937, 15781>>, <<40452, 65215>>, <<953, 13051>>, <<64255, 39649>>,
       <<22976, 6949>>, <<39851, 42289>>, <<38660, 55393>>, <<41723, 8017>>, <<25706, 6941>>, <<36360, 25934>>,
       <<28670, 23386>>, <<5963, 59826>>, <<59254, 61886>>, <<47605, 10209>>, <<22823, 17715>>, <<35877, 28920>>,
       <<33684, 53413>>, <<29550, 56800>>, <<51357, 31703>>, <<59668, 42318>>, <<25987, 54267>>, <<19527, 4637>>,
       <<40769, 4854>>, <<34314, 52329>>, <<56515, 56882>>, <<45720, 43088>>, <<62227, 51332>>, <<52197, 37660>>,
       <<9638, 39811>>, <<30103, 49289>>, <<60724, 55479>>, <<55187, 19856>>, <<32251, 21833>>, <<50391, 51984>>,
       <<16924, 19963>>, <<4340, 55123>>, <<30089, 60375>>, <<3005, 36932>>, <<64227, 27169>>, <<40685, 7941>>,
       <<32284, 14388>>, <<22768, 5569>>, <<21545, 4300>>, <<13705, 39037>>, <<41510, 36586>>, <<37987, 61482>>,
       <<15738, 12015>>, <<22384, 45002>>, <<4971, 51058>>, <<35210, 6254>>, <<8446, 17144>>, <<30154, 24214>>,
       <<8391, 40118>>, <<38323, 15183>>, <<9955, 6238>>, <<26234, 6090>>, <<9098, 11637>>, <<45722, 22415>>,
       <<42000, 24071>>, <<11800, 58243>>, <<11919, 45415>>, <<45645, 60291>>, <<22653, 42679>>, <<26978, 41240>>,
       <<58771, 60610>>, <<57299, 18271>>, <<31061, 36034>>, <<33766, 33434>>, <<43749, 4188>>, <<63773, 49823>>,
       <<11293, 10161>>, <<39448, 28732>>, <<12601, 55929>>, <<14670, 11314>>, <<2678, 23954>>, <<53856, 57108>>,
       <<11071, 21508>>, <<22615, 21969>>, <<18257, 45659>>, <<22781, 37545>>, <<11600, 36668>>, <<2084, 23061>>,
       <<5813, 13716>>, <<35960, 39749>>, <<7905, 65024>>, <<35023, 64132>>
    >>

WordBase == 65536

(* np.random.seed(s): the stream restarts at the first word, whatever its
   state was *)
SeedStateIgnored(s, old) == old
SeedState(s, old) == [seeded |-> TRUE, pos |-> 0]

(* the i-th word after the state st *)
Word(st, i) == MT19937Words[st.pos + i]

(* np.random.randint(low, high): the word masked to the bits of
   high - 1 - low, added to low; a masked value above that is drawn again,
   which a range of a power of two (here 4) never needs *)
RandintFromZero(w, low, high) == w[2] % (high - low)
Randint(w, low, high) == low + (w[2] % (high - low))

(* A fraction of 53 binary places is four digits, the first of 14 bits and
   three of 13, most significant first. *)
FracBases == <<16384, 8192, 8192, 8192>>

(* random_sample(): ((a >> 5) * 2^26 + (b >> 6)) / 2^53 of two words a, b *)
random_sample(a, b) ==
    LET a27 == a[1] * 2048 + (a[2] \div 32)
        b26 == b[1] * 1024 + (b[2] \div 64)
    IN  <<a27 \div 8192, a27 % 8192, b26 \div 8192, b26 % 8192>>

(* num / den <= the fraction of the digits i, i + 1, ... of u; num <= den *)
RECURSIVE FracGeq(_, _, _, _)
FracGeq(u, i, num, den) ==
    IF i > Len(u) THEN num = 0
    ELSE LET q == (num * FracBases[i]) \div den
             r == (num * FracBases[i]) % den
         IN  u[i] > q \/ (u[i] = q /\ FracGeq(u, i + 1, r, den))

(* c / 100 <= u.  The script's cumulative weights are doubles (0.3, 0.55,
   0.8, 1.0 and 0.4, 0.75, 1.0); a sample of 53 places is at or above such
   a double exactly when it is at or above the hundredth. *)
CdfLeq(c, u) == FracGeq(u, 1, c, 100)

(* np.random.choice(a, p=p): cdf.searchsorted(u, side='right'), the number
   of cumulative weights not above the sample; the weights in hundredths *)
RECURSIVE CumWeight(_, _)
CumWeight(p, i) == IF i = 0 THEN 0 ELSE p[i] + CumWeight(p, i - 1)

ChoiceIndex(u, p) ==
    1 + Cardinality({i \in 1..Len(p) : CdfLeq(CumWeight(p, i), u)})

Choice(u, a, p) == a[ChoiceIndex(u, p)]

(* A fixed-point number: whole + frac, frac a fraction of 53 places. *)
Fixed(w, f) == [whole |-> w, frac |-> f]

(* the digits i, i + 1, ... of f times c, as <<carry, digits>> *)
RECURSIVE ScaleDigits(_, _, _)
ScaleDigits(c, f, i) ==
    IF i > Len(f) THEN <<0, <<>>>>
    ELSE LET rest == ScaleDigits(c, f, i + 1)
             t == c * f[i] + rest[1]
         IN  <<t \div FracBases[i], <<t % FracBases[i]>> \o rest[2]>>

(* c * x for an integer c >= 0 *)
FixScale(c, x) ==
    LET s == ScaleDigits(c, x.frac, 1)
    IN  Fixed(c * x.whole + s[1], s[2])

(* np.random.uniform(low, high) = low + (high - low) * u *)
Uniform(u, low, high) ==
    LET x == FixScale(high - low, Fixed(0, u))
    IN  Fixed(low + x.whole, x.frac)

---------------------------------------------------------------------------
(* 1. The generator, lines 10-36 *)

(* (1 + date.month / 12 * w) * 120, w = 1, 0.8, 0.7 *)
TrendFactorFalling(category, month) ==
    IF category = "Technology" THEN 120 - 10 * month
    ELSE IF category = "Furniture" THEN 120 - 8 * month
    ELSE 120 - 7 * month
TrendFactor(category, month) ==
    IF category = "Technology" THEN 120 + 10 * month
    ELSE IF category = "Furniture" THEN 120 + 8 * month
    ELSE 120 + 7 * month

(* sales_amount * AmountScale, from the uniform sample u *)
SalesAmount(category, month, u) ==
    IF category = "Technology"
    THEN FixScale(TrendFactor(category, month), Uniform(u, 100, 5000))
    ELSE IF category = "Furniture"
    THEN FixScale(TrendFactor(category, month), Uniform(u, 50, 3000))
    ELSE FixScale(TrendFactor(category, month), Uniform(u, 20, 1500))

(* one pass of the inner loop body: three samples u1, u2, u3 in this order *)
SaleRow(date, u1, u2, u3) ==
    LET region == Choice(u1, regions, region_p)
        category == Choice(u2, categories, category_p)
    IN  [OrderDate |-> date, Region |-> region, Category |-> category,
         SalesAmount |-> SalesAmount(category, date[1], u3)]

(* the outer loop has run over every date *)
LoopDoneEarly(i) == i >= Len(dates)
LoopDone(i) == i > Len(dates)

(* the stream before np.random.seed: the process seeds it from the system's
   entropy, here two states that are not the seeded one *)
Unseeded == {[seeded |-> FALSE, pos |-> p] : p \in 1..2}

(* The start of the script. *)
Init ==
    /\ pc = "seed"
    /\ rng \in Unseeded
    /\ seedCalls = 0
    /\ drawCount = 0
    /\ dayIdx = 1
    /\ remaining = 0
    /\ data = <<>>
    /\ df = <<>>
    /\ figure = [created |-> FALSE, nrows |-> 0, ncols |-> 0, height_ratios |-> <<>>]
    /\ panels = <<>>
    /\ slicers = <<>>
    /\ error = "none"
    /\ tables = {}
    /\ region_sales = <<>>
    /\ category_sales = <<>>
    /\ monthly_sales = <<>>
    /\ fmtIn = <<0, 1>>
    /\ fmtOut = ""
    /\ run = 1
    /\ prevData = <<>>

(* line 10: np.random.seed(42) *)
SeedRng ==
    /\ pc = "seed"
    /\ rng' = SeedState(SEED, rng)
    /\ seedCalls' = seedCalls + 1
    /\ pc' = IF LoopDone(dayIdx) THEN "frame" ELSE "day"
    /\ UNCHANGED <<drawCount, dayIdx, remaining, data, df>>
    /\ UNCHANGED <<renderVars, aggVars, fmtVars, runVars>>

(* lines 17-18: the next date, and the number of sales drawn for it; a count
   of zero runs the inner loop no time *)
DrawCount ==
    /\ pc = "day"
    /\ LET k == Randint(Word(rng, 1), 1, 5)
       IN  /\ rng' = [rng EXCEPT !.pos = @ + 1]
           /\ drawCount' = drawCount + 1
           /\ remaining' = k
           /\ IF k > 0
              THEN /\ pc' = "sale"
                   /\ dayIdx' = dayIdx
              ELSE /\ dayIdx' = dayIdx + 1
                   /\ pc' = IF LoopDone(dayIdx + 1) THEN "frame" ELSE "day"
    /\ UNCHANGED <<seedCalls, data, df>>
    /\ UNCHANGED <<renderVars, aggVars, fmtVars, runVars>>

(* lines 19-30: one sale of the current date; choice, choice and uniform
   take two words each *)
AppendSale ==
    /\ pc = "sale"
    /\ remaining > 0
    /\ LET u1 == random_sample(Word(rng, 1), Word(rng, 2))
           u2 == random_sample(Word(rng, 3), Word(rng, 4))
           u3 == random_sample(Word(rng, 5), Word(rng, 6))
       IN  /\ rng' = [rng EXCEPT !.pos = @ + 6]
           /\ drawCount' = drawCount + 3
           /\ data' = Append(data, SaleRow(dates[dayIdx], u1, u2, u3))
    /\ remaining' = remaining - 1
    /\ IF remaining = 1
       THEN /\ dayIdx' = dayIdx + 1
            /\ pc' = IF LoopDone(dayIdx + 1) THEN "frame" ELSE "day"
       ELSE /\ dayIdx' = dayIdx
            /\ pc' = "sale"
    /\ UNCHANGED <<seedCalls, df>>
    /\ UNCHANGED <<renderVars, aggVars, fmtVars, runVars>>

(* lines 32-36: the DataFrame and its derived columns.  A DataFrame of no
   rows has object columns, and .dt on one raises AttributeError (line 35). *)
FrameOf(rows) ==
    IF rows = <<>>
    THEN [err |-> "AttributeError", rows |-> <<>>]
    ELSE [err |-> "none",
          rows |-> [i \in 1..Len(rows) |->
                      [OrderDate |-> rows[i].OrderDate, Region |-> rows[i].Region,
                       Category |-> rows[i].Category,
                       SalesAmount |-> rows[i].SalesAmount,
                       Month |-> rows[i].OrderDate[1],
                       YearMonth |-> <<2024, rows[i].OrderDate[1]>>]]]

BuildFrame ==
    /\ pc = "frame"
    /\ LET frame == FrameOf(data)
       IN  /\ df' = frame.rows
           /\ error' = frame.err
           /\ pc' = IF frame.err # "none" THEN "error" ELSE "figure"
    /\ UNCHANGED <<genVars, figure, panels, slicers>>
    /\ UNCHANGED <<aggVars, fmtVars, runVars>>

---------------------------------------------------------------------------
(* 3. The renderer's layout, lines 66-88 *)

region_slicer_texts == <<"Central", "East", "South", "West">>

(* GridSpec.__getitem__ on the column slice start: of a grid of ncols columns,
   the start given in tenths.  slice.indices raises TypeError on a start
   that is no integer; a slice that leaves no column raises IndexError. *)
GridColumns(startTenths, ncols) ==
    IF startTenths % 10 # 0
    THEN [err |-> "TypeError", first |-> 0, last |-> 0]
    ELSE IF startTenths \div 10 >= ncols
    THEN [err |-> "IndexError", first |-> 0, last |-> 0]
    ELSE [err |-> "none", first |-> startTenths \div 10, last |-> ncols - 1]

(* lines 66-70 *)
CreateFigure ==
    /\ pc = "figure"
    /\ figure' = [created |-> TRUE, nrows |-> 3, ncols |-> 3,
                  height_ratios |-> <<10, 45, 45>>]
    /\ pc' = "title"
    /\ UNCHANGED <<genVars, df, panels, slicers, error>>
    /\ UNCHANGED <<aggVars, fmtVars, runVars>>

(* lines 73-76 *)
DrawTitle ==
    /\ pc = "title"
    /\ panels' = Append(panels, "title")
    /\ pc' = "slicer"
    /\ UNCHANGED <<genVars, df, figure, slicers, error>>
    /\ UNCHANGED <<aggVars, fmtVars, runVars>>

(* lines 81-88: one pass of the slicer loop, i = Len(slicers); after the
   fourth pass the script would go on to line 92 *)
AddSlicer ==
    /\ pc = "slicer"
    /\ LET i == Len(slicers)
           cell == GridColumns(10 * i + 8, figure.ncols)
       IN  IF cell.err # "none"
           THEN /\ error' = cell.err
                /\ pc' = "error"
                /\ UNCHANGED <<slicers, panels>>
           ELSE /\ slicers' = Append(slicers,
                        [text |-> region_slicer_texts[i + 1], row |-> 0,
                         first |-> cell.first, last |-> cell.last])
                /\ panels' = Append(panels, "slicer")
                /\ pc' = IF i + 1 = Len(region_slicer_texts) THEN "tables" ELSE "slicer"
                /\ UNCHANGED error
    /\ UNCHANGED <<genVars, df, figure>>
    /\ UNCHANGED <<aggVars, fmtVars, runVars>>

---------------------------------------------------------------------------
(* 2. format_sales, lines 56-61 *)

(* A value is the rational num / den, den > 0. *)

Digit == <<"0", "1", "2", "3", "4", "5", "6", "7", "8", "9">>

(* the decimal digits of n >= 0, one character each *)
RECURSIVE IntChars(_)
IntChars(n) ==
    IF n < 10 THEN <<Digit[n + 1]>>
    ELSE Append(IntChars(n \div 10), Digit[(n % 10) + 1])

RECURSIVE JoinChars(_)
JoinChars(cs) == IF cs = <<>> THEN "" ELSE Head(cs) \o JoinChars(Tail(cs))

(* n / d rounded to an integer the way '%.0f' rounds a double that holds
   n / d exactly: to the nearest, a tie to the even neighbour *)
RoundDown(n, d) == n \div d
RoundHalfEven(n, d) ==
    LET q == n \div d
        r == n % d
    IN  IF 2 * r < d THEN q
        ELSE IF 2 * r > d THEN q + 1
        ELSE IF q % 2 = 0 THEN q ELSE q + 1

(* floor(log2(n / d)) for n >= d *)
RECURSIVE Log2Floor(_, _)
Log2Floor(n, d) == IF n < 2 * d THEN 0 ELSE 1 + Log2Floor(n, 2 * d)

Pow2Mod5(k) == <<1, 2, 4, 3>>[(k % 4) + 1]

(* value / 1_000_000 in tenths, as '%.1f' prints the double quotient.  Off a
   tie the double is as good as the quotient.  On a tie the quotient is
   N / 20 with N odd: when 5 divides N the double holds it exactly and the tie
   goes to the even tenth; otherwise the double is the quotient rounded to
   53 bits, above it exactly when the bits cut off, (N * 2^(50 - e)) mod 5
   fifths of the last place, exceed one half. *)
TenthsOfMillions(num, den) ==
    LET d == den * 100000
        q == num \div d
        r == num % d
        N == 2 * q + 1
        e == Log2Floor(N, 20)
    IN  IF 2 * r < d THEN q
        ELSE IF 2 * r > d THEN q + 1
        ELSE IF N % 5 = 0 THEN (IF q % 2 = 0 THEN q ELSE q + 1)
        ELSE IF (N * Pow2Mod5(50 - e)) % 5 \in {3, 4} THEN q + 1
        ELSE q

(* f'{x:.0f}' of x = n / d *)
Fixed0Truncated(n, d) == IntChars(RoundDown(n, d))
Fixed0(n, d) == IntChars(RoundHalfEven(n, d))

(* f'{x:.1f}' of x given in tenths *)
Fixed1(tenths) == IntChars(tenths \div 10) \o <<".">> \o IntChars(tenths % 10)

format_sales_chars(num, den) ==
    IF num \div den >= 1000000
    THEN Fixed1(TenthsOfMillions(num, den)) \o <<"M">>
    ELSE IF num \div den >= 1000
    THEN Fixed0(num, den * 1000) \o <<"K">>
    ELSE Fixed0(num, den)

format_sales(num, den) == JoinChars(format_sales_chars(num, den))

(* format_sales called on its own: the values 0, 1/2, 1, ... below
   FmtUnits, the multiples of 250 below FmtThousands thousand, and the
   multiples of 50,000 up to FmtMillions times that *)
FormatInputs ==
    {<<n, 2>> : n \in 0..(2 * FmtUnits)}
        \cup {<<250 * n, 1>> : n \in 0..(4 * FmtThousands)}
        \cup {<<50000 * n, 1>> : n \in 0..FmtMillions}


InitFormat ==
    /\ pc = "format"
    /\ fmtIn \in FormatInputs
    /\ fmtOut = ""
    /\ rng \in Unseeded
    /\ seedCalls = 0
    /\ drawCount = 0
    /\ dayIdx = 1
    /\ remaining = 0
    /\ data = <<>>
    /\ df = <<>>
    /\ figure = [created |-> FALSE, nrows |-> 0, ncols |-> 0, height_ratios |-> <<>>]
    /\ panels = <<>>
    /\ slicers = <<>>
    /\ error = "none"
    /\ tables = {}
    /\ region_sales = <<>>
    /\ category_sales = <<>>
    /\ monthly_sales = <<>>
    /\ run = 1
    /\ prevData = <<>>

FormatCall ==
    /\ pc = "format"
    /\ fmtOut' = format_sales(fmtIn[1], fmtIn[2])
    /\ pc' = "formatted"
    /\ UNCHANGED <<genVars, df, renderVars, aggVars, fmtIn, runVars>>

NextFormat == FormatCall

SpecFormat == InitFormat /\ [][NextFormat]_vars

---------------------------------------------------------------------------
(* The script as it runs *)

Next ==
    \/ SeedRng
    \/ DrawCount
    \/ AppendSale
    \/ BuildFrame
    \/ CreateFigure
    \/ DrawTitle
    \/ AddSlicer

Spec == Init /\ [][Next]_vars

(* A second execution of the script: the process starts afresh, its stream
   not yet seeded, and the first execution's list is kept aside for
   comparison. *)
Restart ==
    /\ pc = "frame"
    /\ run = 1
    /\ run' = 2
    /\ prevData' = data
    /\ pc' = "seed"
    /\ rng' \in Unseeded
    /\ seedCalls' = 0
    /\ drawCount' = 0
    /\ dayIdx' = 1
    /\ remaining' = 0
    /\ data' = <<>>
    /\ UNCHANGED <<df, renderVars, aggVars, fmtVars>>

NextRerun ==
    \/ SeedRng
    \/ DrawCount
    \/ AppendSale
    \/ Restart

(* the generator, executed twice *)
SpecRerun == Init /\ [][NextRerun]_vars

---------------------------------------------------------------------------
(* Properties *)

Abs(x) == IF x < 0 THEN -x ELSE x

RegionSet == {regions[i] : i \in 1..Len(regions)}
CategorySet == {categories[i] : i \in 1..Len(categories)}

ZeroFrac == [i \in 1..Len(FracBases) |-> 0]
Positive(x) == x.whole >= 0 /\ (x.whole > 0 \/ x.frac # ZeroFrac)

(* the digits i, i + 1, ... of f plus those of g, as <<carry, digits>> *)
RECURSIVE AddDigits(_, _, _)
AddDigits(f, g, i) ==
    IF i > Len(f) THEN <<0, <<>>>>
    ELSE LET rest == AddDigits(f, g, i + 1)
             t == f[i] + g[i] + rest[1]
         IN  <<t \div FracBases[i], <<t % FracBases[i]>> \o rest[2]>>

FixAdd(x, y) ==
    LET s == AddDigits(x.frac, y.frac, 1)
    IN  Fixed(x.whole + y.whole + s[1], s[2])

(* the sum of f[lo], ..., f[hi] *)
RECURSIVE SumOver(_, _, _)
SumOver(f, lo, hi) ==
    IF lo > hi THEN Fixed(0, ZeroFrac)
    ELSE IF lo = hi THEN f[lo]
    ELSE FixAdd(SumOver(f, lo, (lo + hi) \div 2),
                SumOver(f, ((lo + hi) \div 2) + 1, hi))

ValueTotal(t) == SumOver([i \in 1..Len(t) |-> t[i].value], 1, Len(t))
GrandTotal == SumOver([i \in 1..Len(df) |-> df[i].SalesAmount], 1, Len(df))

AllTables == {"region", "category", "month"}
Generating == pc \in {"seed", "day", "sale"}
Stopped == pc = "error"
RowsOn(date) == {i \in 1..Len(data) : data[i].OrderDate = date}
DateLeq(a, b) == a[1] < b[1] \/ (a[1] = b[1] /\ a[2] <= b[2])
DecStr(n) == JoinChars(IntChars(n))

(* words spread over the whole range of a 32-bit word, both ends included *)
SpreadWords ==
    {<<h, l>> : h \in {WordStride * k : k \in 0..((WordBase - 1) \div WordStride)}
                        \cup {WordBase - 1},
                l \in {0, 1, 2, 3, WordBase - 1}}

(* the words whose samples lie next to a cumulative weight c / 100: the word
   that holds the first 32 places of c / 100 and its neighbours in the 27
   places a sample keeps of its first word *)
CumWeights ==
    {CumWeight(region_p, i) : i \in 1..(Len(region_p) - 1)}
        \cup {CumWeight(category_p, i) : i \in 1..(Len(category_p) - 1)}
EdgeWord(c, d) ==
    LET h == (c * WordBase) \div 100
        l == ((((c * WordBase) % 100) * WordBase) \div 100) + d
    IN  IF l < 0 THEN <<h - 1, l + WordBase>>
        ELSE IF l >= WordBase THEN <<h + 1, l - WordBase>>
        ELSE <<h, l>>
EdgeWords == {EdgeWord(c, d) : c \in CumWeights, d \in {-32, 0, 32}}

SampleWords == SpreadWords \cup EdgeWords
SampleUniforms ==
    {random_sample(a, b) : a \in SampleWords,
                           b \in {<<0, 0>>, <<WordBase - 1, WordBase - 1>>}}

(* C1: when the run is over, the three summary tables have been computed and
   the values of the Region-sum table, of the Category-sum table and of the
   Month-sum table each add up to the grand total of the Dataset. *)
C1_TotalsAgree ==
    Stopped =>
        /\ tables = AllTables
        /\ ValueTotal(region_sales) = GrandTotal
        /\ ValueTotal(category_sales) = GrandTotal
        /\ ValueTotal(monthly_sales) = GrandTotal

(* C2: the stream is seeded once, before the first draw, and every draw is
   taken from the seeded stream: one draw (one word) for each date reached
   and three (six words) for each sale.  A second execution builds the same
   list, row by row. *)
C2_SameSeedSameData ==
    /\ seedCalls <= 1
    /\ (drawCount > 0 => (seedCalls = 1 /\ rng.seeded))
    /\ (pc = "day" =>
            /\ drawCount = (dayIdx - 1) + 3 * Len(data)
            /\ rng.pos = (dayIdx - 1) + 6 * Len(data))
    /\ (pc = "sale" =>
            /\ drawCount = dayIdx + 3 * Len(data)
            /\ rng.pos = dayIdx + 6 * Len(data))
    /\ (run = 2 =>
            /\ Len(data) <= Len(prevData)
            /\ data = SubSeq(prevData, 1, Len(data)))
    /\ (run = 2 /\ pc = "frame" => data = prevData)

C2_Witness ==
    /\ run = 2
    /\ pc = "frame"
    /\ Len(data) >= Len(dates)
    /\ data = prevData
    /\ seedCalls = 1

(* C3: every row of the list has a positive amount, a region of the region
   enumeration and a category of the category enumeration; and so has the
   row of any samples the three draws of a sale may return, in any month. *)
C3_RowsValid ==
    /\ \A i \in 1..Len(data) :
            /\ Positive(data[i].SalesAmount)
            /\ data[i].Region \in RegionSet
            /\ data[i].Category \in CategorySet
    /\ pc = "frame" =>
            \A u \in SampleUniforms :
                /\ Choice(u, regions, region_p) \in RegionSet
                /\ Choice(u, categories, category_p) \in CategorySet
                /\ \A c \in CategorySet : \A m \in 1..Len(DaysInMonth) :
                        Positive(SalesAmount(c, m, u))

C3_Witness ==
    /\ pc = "frame"
    /\ {data[i].Region : i \in 1..Len(data)} = RegionSet
    /\ {data[i].Category : i \in 1..Len(data)} = CategorySet
    /\ \A i \in 1..Len(data) : Positive(data[i].SalesAmount)
    /\ {Choice(u, regions, region_p) : u \in SampleUniforms} = RegionSet
    /\ {Choice(u, categories, category_p) : u \in SampleUniforms} = CategorySet
    /\ Choice(random_sample(<<19660, 52447>>, <<0, 0>>), regions, region_p) = "West"
    /\ Choice(random_sample(<<19660, 52447>>, <<WordBase - 1, WordBase - 1>>),
              regions, region_p) = "East"

(* C4: format_sales(v) of v = n/d >= 0 is a nearest one-decimal value of
   v/1,000,000 followed by "M" when v >= 1,000,000, a nearest integer of
   v/1,000 followed by "K" when 1,000 <= v < 1,000,000, and a nearest
   integer of v otherwise; and format(999) = "999", format(1500) = "2K",
   format(2500000) = "2.5M". *)
C4_FormatRule ==
    pc = "formatted" =>
        LET n == fmtIn[1]
            d == fmtIn[2]
            whole == n \div d
            m == d * 100000
            k == d * 1000
        IN  /\ whole >= 1000000 =>
                \E t \in {n \div m, (n \div m) + 1} :
                    /\ 2 * Abs(n - t * m) <= m
                    /\ fmtOut = DecStr(t \div 10) \o "." \o DecStr(t % 10) \o "M"
            /\ (whole >= 1000 /\ whole < 1000000) =>
                \E t \in {n \div k, (n \div k) + 1} :
                    /\ 2 * Abs(n - t * k) <= k
                    /\ fmtOut = DecStr(t) \o "K"
            /\ whole < 1000 =>
                \E t \in {n \div d, (n \div d) + 1} :
                    /\ 2 * Abs(n - t * d) <= d
                    /\ fmtOut = DecStr(t)
            /\ (n = 999 * d => fmtOut = "999")
            /\ (n = 1500 * d => fmtOut = "2K")
            /\ (n = 2500000 * d => fmtOut = "2.5M")

C4_Witness ==
    /\ pc = "formatted"
    /\ fmtIn = <<1500, 1>>
    /\ fmtOut = "2K"

(* C5: when the run is over, the Region-sum table has been computed and is in
   non-increasing order of its sums, and the Month-sum table has been
   computed and has the keys 1, 2, ..., 12 in this order. *)
C5_TablesSorted ==
    Stopped =>
        /\ "region" \in tables
        /\ \A i \in 1..(Len(region_sales) - 1) :
                region_sales[i].value >= region_sales[i + 1].value
        /\ "month" \in tables
        /\ Len(monthly_sales) = 12
        /\ \A i \in 1..Len(monthly_sales) : monthly_sales[i].key = i

(* C7: when the run is over, the Category-sum table has been computed and
   lists its categories in the order of the category enumeration
   (Technology, Furniture, Office Supplies). *)
C7_EnumerationOrder ==
    Stopped =>
        /\ "category" \in tables
        /\ \A i, j \in 1..Len(category_sales) :
                i < j =>
                    \E a, b \in 1..Len(categories) :
                        /\ a < b
                        /\ categories[a] = category_sales[i].key
                        /\ categories[b] = category_sales[j].key

(* C8: no label panel step ends the run in an error, and once the slicer loop
   is over there are four label panels, one for each region name, each on
   columns of the three-column grid. *)
C8_FourLabelPanels ==
    /\ error = "none"
    /\ pc # "error"
    /\ \A i \in 1..Len(slicers) :
            /\ slicers[i].text = region_slicer_texts[i]
            /\ 0 <= slicers[i].first
            /\ slicers[i].first <= slicers[i].last
            /\ slicers[i].last < figure.ncols
    /\ pc \notin {"seed", "day", "sale", "frame", "figure", "title", "slicer"}
            => Len(slicers) = 4

(* C9: randint(1, 5) returns 1, 2, 3 or 4 whatever the word; every date of
   the range has from one to four rows once the loop has passed it, no row
   has a date outside the range, the rows are in non-decreasing date order,
   and the Month of a row of the DataFrame is the month of its OrderDate. *)
C9_RowsPerDay ==
    /\ pc = "frame" => \A w \in SampleWords : Randint(w, 1, 5) \in 1..4
    /\ \A d \in 1..Len(dates) :
            (d < dayIdx \/ ~Generating) =>
                /\ Cardinality(RowsOn(dates[d])) >= 1
                /\ Cardinality(RowsOn(dates[d])) <= 4
    /\ \A i \in 1..Len(data) : \E d \in 1..Len(dates) : data[i].OrderDate = dates[d]
    /\ \A i \in 1..(Len(data) - 1) : DateLeq(data[i].OrderDate, data[i + 1].OrderDate)
    /\ pc \notin {"seed", "day", "sale", "frame"} =>
            /\ Len(df) = Len(data)
            /\ \A i \in 1..Len(df) :
                    /\ df[i].OrderDate = data[i].OrderDate
                    /\ df[i].Month = dates[CHOOSE d \in 1..Len(dates) :
                                              dates[d] = data[i].OrderDate][1]
                    /\ df[i].Month \in 1..12

C9_Witness ==
    /\ pc = "figure"
    /\ Len(df) > Len(dates)
    /\ \E d \in 1..Len(dates) : Cardinality(RowsOn(dates[d])) = 4
    /\ \E d \in 1..Len(dates) : Cardinality(RowsOn(dates[d])) = 1
    /\ df[Len(df)].Month = 12
    /\ {Randint(w, 1, 5) : w \in SampleWords} = 1..4

(* C10 as stated: whenever the renderer has drawn a panel, all three summary
   tables have been computed. *)
C10_TablesBeforePanels ==
    panels # <<>> => tables = AllTables

StageRank(p) ==
    CASE p \in {"seed", "day", "sale", "frame"} -> 1
      [] OTHER -> 2

(* C10, amended: the generator has completed the whole Dataset, a row for
   every date and the derived columns, before the renderer creates the figure
   or draws anything; the renderer then draws its title before any summary
   table is computed; and the run never goes back to an earlier stage. *)
C10_StagesInOrder ==
    /\ [](  (figure.created \/ panels # <<>> \/ tables # {}) =>
                /\ ~Generating
                /\ LoopDone(dayIdx)
                /\ remaining = 0
                /\ df = FrameOf(data).rows
                /\ \A d \in 1..Len(dates) : RowsOn(dates[d]) # {})
    /\ [](panels # <<>> => (figure.created /\ panels[1] = "title" /\ tables = {}))
    /\ [][StageRank(pc') >= StageRank(pc)]_vars

C10_Witness ==
    /\ panels = <<"title">>
    /\ tables = {}
    /\ figure.created
    /\ Len(df) >= Len(dates)
    /\ df = FrameOf(data).rows

====
